---------------------------- MODULE Spec2Model ----------------------------
(***************************************************************************)
(* A model of pitch_calc's Step unit type (src/step.rs): its conversion    *)
(* methods, its arithmetic, equality and ordering operators, and the       *)
(* macro-generated conversions from and into the eight fixed-width integer *)
(* kinds.                                                                  *)
(*                                                                         *)
(* Step wraps one f32.  Every operation is a pure function of its          *)
(* operands, so the state machine is a caller: it holds operands, calls    *)
(* one operation per step and records what came back.                      *)
(*                                                                         *)
(* Numbers.  A magnitude is a finite set of integer bit positions and      *)
(* stands for the sum of 2^i over its members; positions below 0 are       *)
(* fractional bits.  That keeps every width of the program exact: a u64 is *)
(* a subset of 0..63, a finite f32 is a set of positions within -149..127  *)
(* that spans at most 24 positions.                                        *)
(***************************************************************************)
EXTENDS Integers, FiniteSets, Sequences

(***************************************************************************)
(* Magnitudes                                                              *)
(***************************************************************************)
MaxOf(S) == CHOOSE i \in S : \A j \in S : j <= i

MinOf(S) == CHOOSE i \in S : \A j \in S : i <= j

Xor(A, B) == (A \ B) \cup (B \ A)

Shift(A, k) == {i + k : i \in A}

\* A < B as numbers: the highest position where they differ belongs to B.
MagLt(A, B) == A # B /\ MaxOf(Xor(A, B)) \in B

MagLe(A, B) == A = B \/ MagLt(A, B)

\* A mod 2^i: the positions of A below i.
Below(A, i) == {j \in A : j < i}

\* A + B, position by position: a carry enters position i when the parts of
\* A and B below i add up to 2^i or more, that is when some lower position
\* holds a bit of both and every position between holds a bit of one.
MagAdd(A, B) ==
    IF A = {} THEN B
    ELSE IF B = {} THEN A
    ELSE LET U == A \cup B
             carry(i) == \E j \in A \cap B : j < i /\ \A k \in (j + 1)..(i - 1) : k \in U
         IN {i \in MinOf(U)..(MaxOf(U) + 1) : (i \in A) # ((i \in B) # carry(i))}

\* A - B for B <= A, position by position: a borrow is taken from position
\* i when the part of A below i is less than the part of B below i.
MagSub(A, B) ==
    IF B = {} THEN A
    ELSE LET U == A \cup B
             borrow(i) == MagLt(Below(A, i), Below(B, i))
         IN {i \in MinOf(U)..MaxOf(U) : (i \in A) # ((i \in B) # borrow(i))}

\* A * B: A shifted to the one position of B, or the sum of the products of
\* A with the upper and the lower half of B.
RECURSIVE MagMul(_, _)
MagMul(A, B) ==
    IF B = {} THEN {}
    ELSE IF MinOf(B) = MaxOf(B) THEN Shift(A, MaxOf(B))
    ELSE LET mid == (MinOf(B) + MaxOf(B) + 1) \div 2
         IN MagAdd(MagMul(A, {j \in B : j >= mid}), MagMul(A, Below(B, mid)))

\* The magnitude of a small natural number k, and of k * 2^e.
NatBits(k) == {i \in 0..30 : (k \div (2 ^ i)) % 2 = 1}

Dy(k, e) == Shift(NatBits(k), e)

\* Long division in base 2^DigitBits.
DigitBits == 4

Digits == 0..(2 ^ DigitBits - 1)

\* R divided by B (B # {}, R < B * 2^(pos + DigitBits)): cnt digits of the
\* quotient, the lowest of them at position pos - (cnt - 1) * DigitBits, and
\* what is left of R.
RECURSIVE MagDivMod(_, _, _, _)
MagDivMod(R, B, pos, cnt) ==
    IF cnt = 0 THEN [q |-> {}, r |-> R]
    ELSE LET D == Shift(B, pos)
             d == CHOOSE d \in Digits :
                      /\ MagLe(MagMul(D, NatBits(d)), R)
                      /\ (d + 1 \in Digits => MagLt(R, MagMul(D, NatBits(d + 1))))
             rest == MagDivMod(MagSub(R, MagMul(D, NatBits(d))), B, pos - DigitBits, cnt - 1)
         IN [q |-> Dy(d, pos) \cup rest.q, r |-> rest.r]

\* The bits of A / B (A, B # {}) from the top one down for at least cnt
\* positions, and one position further down standing for a nonzero rest.
MagDivBits(A, B, cnt) ==
    LET pos == MaxOf(A) - MaxOf(B) - (DigitBits - 1)
        n == cnt \div DigitBits + 2
        dm == MagDivMod(A, B, pos, n)
    IN dm.q \cup (IF dm.r = {} THEN {} ELSE {pos - n * DigitBits})

\* The rest of A divided by B (B # {}).
MagMod(A, B) ==
    IF MagLt(A, B) THEN A
    ELSE LET n == (MaxOf(A) - MaxOf(B)) \div DigitBits
         IN MagDivMod(A, B, n * DigitBits, n + 1).r

\* 2^s mod B for a whole number B # {}, by squaring.
RECURSIVE Pow2Mod(_, _)
Pow2Mod(s, B) ==
    IF s = 0 THEN MagMod({0}, B)
    ELSE LET h == Pow2Mod(s \div 2, B)
             sq == MagMod(MagMul(h, h), B)
         IN IF s % 2 = 1 THEN MagMod(Shift(sq, 1), B) ELSE sq

\* The rest of A divided by B for magnitudes of f32 (A, B # {}).  When the
\* lowest bit of A lies above that of B, A is a whole multiple m * 2^s of B's
\* lowest bit and its rest is that of (m mod B) * (2^s mod B).
MagRem(A, B) ==
    IF MinOf(A) <= MinOf(B) THEN MagMod(A, B)
    ELSE LET e == MinOf(B)
             B0 == Shift(B, -e)
             m == Shift(A, -MinOf(A))
             s == MinOf(A) - e
         IN Shift(MagMod(MagMul(MagMod(m, B0), Pow2Mod(s, B0)), B0), e)

(***************************************************************************)
(* f32: the scalar type calc::Step that Step wraps                         *)
(***************************************************************************)
MantBits == 24

MinPos == -149

MaxPos == 127

NaN == [k |-> "nan", neg |-> FALSE, mag |-> {}]

Inf(neg) == [k |-> "inf", neg |-> neg, mag |-> {}]

Fin(neg, M) == [k |-> "fin", neg |-> neg, mag |-> M]

Zero(neg) == Fin(neg, {})

IsNaN(x) == x.k = "nan"

IsInf(x) == x.k = "inf"

IsFin(x) == x.k = "fin"

IsZero(x) == x.k = "fin" /\ x.mag = {}

\* The magnitudes a finite f32 can hold.
IsF32Mag(M) ==
    M = {} \/ (/\ MinOf(M) >= MinPos
               /\ MaxOf(M) <= MaxPos
               /\ MaxOf(M) - MinOf(M) < MantBits)

\* The f32 nearest to the exact value (-1)^neg * M, ties to the even
\* mantissa, overflowing to infinity.
RoundF32(neg, M) ==
    IF M = {} THEN Zero(neg)
    ELSE LET top == MaxOf(M)
             lsb == IF top - (MantBits - 1) > MinPos THEN top - (MantBits - 1) ELSE MinPos
             kept == {i \in M : i >= lsb}
             half == (lsb - 1) \in M
             sticky == \E i \in M : i < lsb - 1
             up == half /\ (sticky \/ lsb \in M)
             r == IF up THEN MagAdd(kept, {lsb}) ELSE kept
         IN IF r = {} THEN Zero(neg)
            ELSE IF MaxOf(r) > MaxPos THEN Inf(neg)
            ELSE Fin(neg, r)

F32Neg(x) == IF IsNaN(x) THEN NaN ELSE [x EXCEPT !.neg = ~x.neg]

F32Add(x, y) ==
    IF IsNaN(x) \/ IsNaN(y) THEN NaN
    ELSE IF IsInf(x) /\ IsInf(y) THEN (IF x.neg = y.neg THEN x ELSE NaN)
    ELSE IF IsInf(x) THEN x
    ELSE IF IsInf(y) THEN y
    ELSE IF x.neg = y.neg THEN RoundF32(x.neg, MagAdd(x.mag, y.mag))
    ELSE IF x.mag = y.mag THEN Zero(FALSE)
    ELSE IF MagLt(x.mag, y.mag) THEN RoundF32(y.neg, MagSub(y.mag, x.mag))
    ELSE RoundF32(x.neg, MagSub(x.mag, y.mag))

F32Sub(x, y) == F32Add(x, F32Neg(y))

F32Mul(x, y) ==
    IF IsNaN(x) \/ IsNaN(y) THEN NaN
    ELSE IF (IsInf(x) /\ IsZero(y)) \/ (IsZero(x) /\ IsInf(y)) THEN NaN
    ELSE IF IsInf(x) \/ IsInf(y) THEN Inf(x.neg # y.neg)
    ELSE RoundF32(x.neg # y.neg, MagMul(x.mag, y.mag))

F32Div(x, y) ==
    IF IsNaN(x) \/ IsNaN(y) THEN NaN
    ELSE IF (IsInf(x) /\ IsInf(y)) \/ (IsZero(x) /\ IsZero(y)) THEN NaN
    ELSE IF IsInf(x) \/ IsZero(y) THEN Inf(x.neg # y.neg)
    ELSE IF IsInf(y) \/ IsZero(x) THEN Zero(x.neg # y.neg)
    ELSE RoundF32(x.neg # y.neg,
                  MagDivBits(x.mag, y.mag, MantBits + 2))

\* The remainder has the sign of the dividend and is exact.
F32Rem(x, y) ==
    IF IsNaN(x) \/ IsNaN(y) \/ IsInf(x) \/ IsZero(y) THEN NaN
    ELSE IF IsInf(y) \/ IsZero(x) THEN x
    ELSE RoundF32(x.neg, MagRem(x.mag, y.mag))

F32Eq(x, y) ==
    /\ ~IsNaN(x)
    /\ ~IsNaN(y)
    /\ x.k = y.k
    /\ x.mag = y.mag
    /\ (x.neg = y.neg \/ IsZero(x))

\* x < y for operands that are not NaN.
F32Lt(x, y) ==
    /\ ~F32Eq(x, y)
    /\ IF x.neg # y.neg THEN x.neg
       ELSE IF x.k # y.k THEN (IsInf(y) # x.neg)
       ELSE IF IsInf(x) THEN FALSE
       ELSE (MagLt(x.mag, y.mag) # x.neg)

None == <<"None">>

Some(v) == <<"Some", v>>

F32PartialCmp(x, y) ==
    IF IsNaN(x) \/ IsNaN(y) THEN None
    ELSE IF F32Eq(x, y) THEN Some("Equal")
    ELSE IF F32Lt(x, y) THEN Some("Less")
    ELSE Some("Greater")

(***************************************************************************)
(* The fixed-width integer kinds of impl_all_from!                         *)
(***************************************************************************)
Kinds == {"u8", "u16", "u32", "u64", "i8", "i16", "i32", "i64"}

Signed(T) == T \in {"i8", "i16", "i32", "i64"}

Width(T) ==
    CASE T \in {"u8", "i8"} -> 8
      [] T \in {"u16", "i16"} -> 16
      [] T \in {"u32", "i32"} -> 32
      [] T \in {"u64", "i64"} -> 64

\* An integer value: sign and magnitude, zero unsigned.
IntVal(neg, M) == [neg |-> neg /\ M # {}, mag |-> M]

IntMax(T) == IntVal(FALSE, IF Signed(T) THEN 0..(Width(T) - 2) ELSE 0..(Width(T) - 1))

IntMin(T) == IF Signed(T) THEN IntVal(TRUE, {Width(T) - 1}) ELSE IntVal(FALSE, {})

\* v lies within T::MIN ..= T::MAX.
InRange(T, v) ==
    IF v.neg THEN Signed(T) /\ MagLe(v.mag, IntMin(T).mag)
    ELSE MagLe(v.mag, IntMax(T).mag)

\* `val as f32` for an integer val: the nearest f32, ties to even.
AsF32(v) == RoundF32(v.neg, v.mag)

\* x with its fractional part discarded, as an integer of unbounded width.
Trunc(x) == IntVal(x.neg, {i \in x.mag : i >= 0})

\* `x as T` for an f32 x: truncate toward zero, saturate at T's bounds,
\* NaN to 0.
AsInt(x, T) ==
    IF IsNaN(x) THEN IntVal(FALSE, {})
    ELSE IF IsInf(x) THEN (IF x.neg THEN IntMin(T) ELSE IntMax(T))
    ELSE IF InRange(T, Trunc(x)) THEN Trunc(x)
    ELSE IF x.neg THEN IntMin(T)
    ELSE IntMax(T)

(***************************************************************************)
(* The collaborators of step.rs: the unit wrapper types, the scalar        *)
(* conversion functions and the default weight.  The conversion functions  *)
(* are pure and total; nothing else about them is used, so the result of   *)
(* each is the term naming the function and its arguments.                 *)
(***************************************************************************)
Hz(x) == <<"Hz", x>>

Mel(x) == <<"Mel", x>>

Perc(x) == <<"Perc", x>>

ScaledPerc(x, weight) == <<"ScaledPerc", x, weight>>

LetterOctave(l, o) == <<"LetterOctave", l, o>>

hz_from_step(x) == <<"hz_from_step", x>>

mel_from_step(x) == <<"mel_from_step", x>>

perc_from_step(x) == <<"perc_from_step", x>>

scaled_perc_from_step(x, weight) == <<"scaled_perc_from_step", x, weight>>

letter_octave_from_step(x) == << <<"letter_from_step", x>>, <<"octave_from_step", x>> >>

\* step.rs imports the default weight and does not show its value: 4.0 stands
\* for it, and nothing below depends on which value it is.
DEFAULT_SCALE_WEIGHT == Fin(FALSE, Dy(4, 0))

(***************************************************************************)
(* Step                                                                    *)
(***************************************************************************)
Step(x) == <<"Step", x>>

step(self) == self[2]

hz(self) == hz_from_step(self[2])

to_hz(self) == Hz(hz(self))

letter_octave(self) == letter_octave_from_step(step(self))

letter(self) == letter_octave(self)[1]

\* octave taking the first component of the pair.
octave_first(self) == letter_octave(self)[1]

octave(self) == letter_octave(self)[2]

to_letter_octave(self) == LetterOctave(letter_octave(self)[1], letter_octave(self)[2])

mel(self) == mel_from_step(step(self))

to_mel(self) == Mel(mel(self))

perc(self) == perc_from_step(step(self))

to_perc(self) == Perc(perc(self))

scaled_perc_with_weight(self, weight) == scaled_perc_from_step(step(self), weight)

\* scaled_perc with the weight 1 in place of the default weight.
scaled_perc_unit_weight(self) == scaled_perc_with_weight(self, Fin(FALSE, Dy(1, 0)))

scaled_perc(self) == scaled_perc_with_weight(self, DEFAULT_SCALE_WEIGHT)

\* to_scaled_perc_with_weight storing the default weight, not the one used.
to_scaled_perc_with_weight_default(self, weight) ==
    ScaledPerc(scaled_perc_with_weight(self, weight), DEFAULT_SCALE_WEIGHT)

to_scaled_perc_with_weight(self, weight) ==
    ScaledPerc(scaled_perc_with_weight(self, weight), weight)

to_scaled_perc(self) == to_scaled_perc_with_weight(self, DEFAULT_SCALE_WEIGHT)

add(self, rhs) == Step(F32Add(step(self), step(rhs)))

\* sub with its operands exchanged.
sub_swapped(self, rhs) == Step(F32Sub(step(rhs), step(self)))

sub(self, rhs) == Step(F32Sub(step(self), step(rhs)))

mul(self, rhs) == Step(F32Mul(step(self), step(rhs)))

\* div computing the remainder.
div_as_rem(self, rhs) == Step(F32Rem(step(self), step(rhs)))

div(self, rhs) == Step(F32Div(step(self), step(rhs)))

rem(self, rhs) == Step(F32Rem(step(self), step(rhs)))

neg(self) == Step(F32Neg(step(self)))

eq(self, other) == F32Eq(step(self), step(other))

\* partial_cmp with its operands exchanged.
partial_cmp_reversed(self, other) == F32PartialCmp(step(other), step(self))

partial_cmp(self, other) == F32PartialCmp(step(self), step(other))

\* PartialOrd's provided operators < and >, decided by partial_cmp.
lt(self, other) == partial_cmp(self, other) = Some("Less")

gt(self, other) == partial_cmp(self, other) = Some("Greater")

\* What a call gives back: a value, or the panic of an unwrap on None.
Ok(v) == <<"Ok", v>>

Panic == <<"Panic">>

unwrap(o) == IF o = None THEN Panic ELSE Ok(o[2])

\* cmp that takes an unordered pair for an equal one instead of unwrapping.
cmp_total(self, other) ==
    IF partial_cmp(self, other) = None THEN Ok("Equal") ELSE Ok(partial_cmp(self, other)[2])

cmp(self, other) == unwrap(partial_cmp(self, other))

\* from that drops the sign of val.
from_unsigned(val) == Step(AsF32(IntVal(FALSE, val.mag)))

from(val) == Step(AsF32(val))

\* into that rounds toward minus infinity instead of toward zero.
into_floor(self, T) ==
    LET x == self[2] IN
    IF IsFin(x) /\ x.neg /\ (\E i \in x.mag : i < 0)
    THEN AsInt(Fin(TRUE, MagAdd(Trunc(x).mag, {0})), T)
    ELSE AsInt(x, T)

\* into that keeps the low bits of a value too large for an unsigned T
\* instead of saturating.
into_wrapping(self, T) ==
    LET x == self[2] IN
    IF IsFin(x) /\ ~x.neg /\ ~Signed(T) /\ ~InRange(T, Trunc(x))
    THEN IntVal(FALSE, {i \in Trunc(x).mag : i < Width(T)})
    ELSE AsInt(x, T)

into(self, T) == AsInt(self[2], T)

(***************************************************************************)
(* Operands                                                                *)
(***************************************************************************)
\* Arithmetic operands: the multiples of 2^-ArithFrac up to ArithMax of
\* them, the zeros, the infinities, NaN and the ends of the finite range.
ArithMax == 14

ArithFrac == 1

MaxFinite == Fin(FALSE, (MaxPos - MantBits + 1)..MaxPos)

MinSubnormal == Fin(FALSE, {MinPos})

SignedBoth(F) == F \cup {F32Neg(x) : x \in F}

ArithFloats ==
    SignedBoth({Fin(FALSE, Dy(k, -ArithFrac)) : k \in 0..ArithMax}
               \cup {Inf(FALSE), MaxFinite, MinSubnormal})
    \cup {NaN}

\* Operands of the integer conversions: bit patterns around the places where
\* f32 rounds (MantBits below the top bit) and where a kind overflows.
Near == 1

FracDepth == 2

TopSlack == 1

Offsets == {1} \cup ((MantBits - Near)..(MantBits + Near))

NearPos(lo, hi) == {p \in {hi - d : d \in Offsets} \cup {lo} : lo <= p /\ p < hi}

\* Magnitudes with top bit hi and no bit below lo.
Pats(lo, hi) ==
    {{hi} \cup S : S \in {S \in SUBSET NearPos(lo, hi) : Cardinality(S) <= 2}}
    \cup {p..hi : p \in NearPos(lo, hi)}

IntMags(W) == {{}} \cup UNION {Pats(0, hi) : hi \in 0..(W - 1)}

Sixty == Dy(60, 0)

IntInputs ==
    UNION {{[kind |-> T, val |-> v] :
              v \in {v \in {IntVal(s, M) : s \in BOOLEAN, M \in IntMags(Width(T)) \cup {Sixty}} :
                       InRange(T, v)}} : T \in Kinds}

\* 60.9 and 1.9 as f32 holds them.
F60_9 == Fin(FALSE, Dy(15964570, -18))

F1_9 == Fin(FALSE, Dy(15938355, -23))

CoerceFloats ==
    SignedBoth({Fin(FALSE, M) : M \in UNION {Pats(-FracDepth, hi) : hi \in (-FracDepth)..(63 + TopSlack)}}
               \cup {Zero(FALSE), Inf(FALSE), MaxFinite, MinSubnormal, F60_9, F1_9,
                     Fin(FALSE, Sixty)})
    \cup {NaN}

Weights == {DEFAULT_SCALE_WEIGHT} \cup {Fin(FALSE, Dy(k, -ArithFrac)) : k \in 1..ArithMax} \cup {NaN}

(***************************************************************************)
(* The caller                                                              *)
(***************************************************************************)
VARIABLES
    a,        \* the Step the call is made on
    b,        \* the other Step of a binary operator
    w,        \* the ScaleWeight argument
    n,        \* the integer argument of Step::from, with its kind
    made,     \* whether a is Step::from(n)
    op,       \* the operation called last
    target,   \* the integer kind of the last from or into
    ret       \* what the last call gave back

vars == <<a, b, w, n, made, op, target, ret>>

NoKind == "-"

Unit == <<"Unit">>

Sixty_u8 == [kind |-> "u8", val |-> IntVal(FALSE, Sixty)]

One == Step(Fin(FALSE, Dy(1, 0)))

Start ==
    /\ made = FALSE
    /\ op = "none"
    /\ target = NoKind
    /\ ret = Unit

InitArith ==
    /\ a \in {Step(x) : x \in ArithFloats}
    /\ b \in {Step(x) : x \in ArithFloats}
    /\ w = DEFAULT_SCALE_WEIGHT
    /\ n = Sixty_u8
    /\ Start

InitConv ==
    /\ a \in {Step(x) : x \in ArithFloats}
    /\ b = One
    /\ w \in Weights
    /\ n = Sixty_u8
    /\ Start

InitCoerce ==
    /\ a \in {Step(x) : x \in CoerceFloats}
    /\ b = One
    /\ w = DEFAULT_SCALE_WEIGHT
    /\ n = Sixty_u8
    /\ Start

InitInt ==
    /\ a = One
    /\ b = One
    /\ w = DEFAULT_SCALE_WEIGHT
    /\ n \in IntInputs
    /\ Start

Init == InitArith \/ InitConv \/ InitCoerce \/ InitInt

\* A caller builds its operands, optionally one of them from an integer, and
\* makes one call.
Idle == op \in {"none", "from"}

Return(name, v) ==
    /\ op' = name
    /\ ret' = v
    /\ target' = NoKind
    /\ UNCHANGED <<a, b, w, n, made>>

CallStep == Idle /\ Return("step", Ok(step(a)))

CallHz == Idle /\ Return("hz", Ok(hz(a)))

CallToHz == Idle /\ Return("to_hz", Ok(to_hz(a)))

CallLetterOctave == Idle /\ Return("letter_octave", Ok(letter_octave(a)))

CallLetter == Idle /\ Return("letter", Ok(letter(a)))

CallOctave == Idle /\ Return("octave", Ok(octave(a)))

CallToLetterOctave == Idle /\ Return("to_letter_octave", Ok(to_letter_octave(a)))

CallMel == Idle /\ Return("mel", Ok(mel(a)))

CallToMel == Idle /\ Return("to_mel", Ok(to_mel(a)))

CallPerc == Idle /\ Return("perc", Ok(perc(a)))

CallToPerc == Idle /\ Return("to_perc", Ok(to_perc(a)))

CallScaledPercWithWeight ==
    Idle /\ Return("scaled_perc_with_weight", Ok(scaled_perc_with_weight(a, w)))

CallScaledPerc == Idle /\ Return("scaled_perc", Ok(scaled_perc(a)))

CallToScaledPercWithWeight ==
    Idle /\ Return("to_scaled_perc_with_weight", Ok(to_scaled_perc_with_weight(a, w)))

CallToScaledPerc == Idle /\ Return("to_scaled_perc", Ok(to_scaled_perc(a)))

CallAdd == Idle /\ Return("add", Ok(add(a, b)))

CallSub == Idle /\ Return("sub", Ok(sub(a, b)))

CallMul == Idle /\ Return("mul", Ok(mul(a, b)))

CallDiv == Idle /\ Return("div", Ok(div(a, b)))

CallRem == Idle /\ Return("rem", Ok(rem(a, b)))

CallNeg == Idle /\ Return("neg", Ok(neg(a)))

CallEq == Idle /\ Return("eq", Ok(eq(a, b)))

CallLt == Idle /\ Return("lt", Ok(lt(a, b)))

CallGt == Idle /\ Return("gt", Ok(gt(a, b)))

CallPartialCmp == Idle /\ Return("partial_cmp", Ok(partial_cmp(a, b)))

CallCmp == Idle /\ Return("cmp", cmp(a, b))

\* Step::from(n): the impl is the one of n's kind.
CallFrom ==
    /\ op = "none"
    /\ a' = from(n.val)
    /\ made' = TRUE
    /\ op' = "from"
    /\ target' = n.kind
    /\ ret' = Ok(a')
    /\ UNCHANGED <<b, w, n>>

\* a.into() for a target kind T.
CallInto ==
    \E T \in Kinds :
        /\ Idle
        /\ op' = "into"
        /\ target' = T
        /\ ret' = Ok(into(a, T))
        /\ UNCHANGED <<a, b, w, n, made>>

Next ==
    \/ CallStep
    \/ CallHz
    \/ CallToHz
    \/ CallLetterOctave
    \/ CallLetter
    \/ CallOctave
    \/ CallToLetterOctave
    \/ CallMel
    \/ CallToMel
    \/ CallPerc
    \/ CallToPerc
    \/ CallScaledPercWithWeight
    \/ CallScaledPerc
    \/ CallToScaledPercWithWeight
    \/ CallToScaledPerc
    \/ CallAdd
    \/ CallSub
    \/ CallMul
    \/ CallDiv
    \/ CallRem
    \/ CallNeg
    \/ CallEq
    \/ CallLt
    \/ CallGt
    \/ CallPartialCmp
    \/ CallCmp
    \/ CallFrom
    \/ CallInto

Spec == Init /\ [][Next]_vars


(***************************************************************************)
(* Properties                                                              *)
(***************************************************************************)
F(k) == Fin(FALSE, Dy(k, 0))

I(k) == IntVal(FALSE, Dy(k, 0))

x_a == step(a)

x_b == step(b)

\* The f32 values: NaN, an infinity, or a finite value f32 can hold.
IsF32(x) ==
    \/ x = NaN
    \/ x \in {Inf(FALSE), Inf(TRUE)}
    \/ (IsFin(x) /\ x.neg \in BOOLEAN /\ IsF32Mag(x.mag))

\* A Step made from an integer and converted back into the same kind.
RoundTripped == op = "into" /\ made /\ target = n.kind

\* C1 as stated: for every integer kind T and every n in T's range,
\* Step::from(n).into() gives back exactly n.
C1_RoundTripEveryInteger == RoundTripped => ret = Ok(n.val)

\* C1, amended: Step::from(n).into() gives back exactly n for every n in T's
\* range that f32 holds exactly, which is every n of the 8 and 16 bit kinds
\* and every n of the wider kinds whose set bits span at most 24 positions;
\* Step::from(60) is Step(60.0) and Step(60.0).into() is 60 for every kind.
C1_RoundTripExactIntegers ==
    /\ (RoundTripped /\ IsF32Mag(n.val.mag)) => ret = Ok(n.val)
    /\ Width(n.kind) <= 16 => IsF32Mag(n.val.mag)
    /\ (op = "from" /\ n.val = I(60)) => (a = Step(F(60)) /\ ret = Ok(Step(F(60))))
    /\ (op = "into" /\ a = Step(F(60))) => ret = Ok(I(60))

C1_Witness ==
    /\ RoundTripped
    /\ n.kind = "i64"
    /\ n.val = IntVal(TRUE, {40, 17})
    /\ a = Step(Fin(TRUE, {40, 17}))
    /\ ret = Ok(n.val)

\* The integers of kind T.
IsIntOf(T, v) ==
    /\ v.neg \in BOOLEAN
    /\ v.mag \subseteq 0..(Width(T) - 1)
    /\ (v.mag = {} => ~v.neg)
    /\ InRange(T, v)

\* C2: into() is total and truncates toward zero: for every Step, NaN and
\* the infinities included, it returns an integer of the target kind, and for
\* a finite value whose integer part is in the target's range it returns that
\* integer part (60.9 gives 60, -1.9 gives -1 for the signed kinds).
C2_IntoTotalTruncates ==
    op = "into" =>
        /\ ret[1] = "Ok"
        /\ IsIntOf(target, ret[2])
        /\ (IsFin(x_a) /\ InRange(target, Trunc(x_a))) => ret[2] = Trunc(x_a)
        /\ x_a = F60_9 => ret[2] = I(60)
        /\ (x_a = F32Neg(F1_9) /\ Signed(target)) => ret[2] = IntVal(TRUE, Dy(1, 0))

C2_Witness ==
    /\ op = "into"
    /\ target = "i16"
    /\ x_a = F32Neg(F1_9)
    /\ ret = Ok(IntVal(TRUE, {0}))

\* x lies above T::MAX, or below T::MIN.
AboveMax(x, T) == x = Inf(FALSE) \/ (IsFin(x) /\ ~x.neg /\ MagLt(IntMax(T).mag, x.mag))

BelowMin(x, T) == x = Inf(TRUE) \/ (IsFin(x) /\ x.neg /\ MagLt(IntMin(T).mag, x.mag))

\* C10: into() of a value outside the target kind's range saturates and never
\* wraps: above T::MAX (+infinity included) it gives T::MAX, below T::MIN
\* (-infinity included, and every negative value for an unsigned kind) it
\* gives T::MIN, and NaN gives 0.
C10_IntoSaturates ==
    op = "into" =>
        /\ AboveMax(x_a, target) => ret = Ok(IntMax(target))
        /\ BelowMin(x_a, target) => ret = Ok(IntMin(target))
        /\ IsNaN(x_a) => ret = Ok(I(0))

C10_Witness ==
    /\ op = "into"
    /\ target = "u8"
    /\ x_a = Fin(FALSE, {8, 7})
    /\ ret = Ok(I(255))

\* C3: each of a + b, a - b, a * b, a / b, a % b and -a is the Step of the
\* f32 operation on a.step() and b.step(): 3 + 4 = 7, 5 - 2 = 3, 2 * 3 = 6,
\* -2 = -(2).
C3_OperatorsAreScalarOperations ==
    /\ op = "add" => ret = Ok(Step(F32Add(x_a, x_b)))
    /\ op = "sub" => ret = Ok(Step(F32Sub(x_a, x_b)))
    /\ op = "mul" => ret = Ok(Step(F32Mul(x_a, x_b)))
    /\ op = "div" => ret = Ok(Step(F32Div(x_a, x_b)))
    /\ op = "rem" => ret = Ok(Step(F32Rem(x_a, x_b)))
    /\ op = "neg" => ret = Ok(Step(F32Neg(x_a)))
    /\ (op = "add" /\ x_a = F(3) /\ x_b = F(4)) => ret = Ok(Step(F(7)))
    /\ (op = "sub" /\ x_a = F(5) /\ x_b = F(2)) => ret = Ok(Step(F(3)))
    /\ (op = "mul" /\ x_a = F(2) /\ x_b = F(3)) => ret = Ok(Step(F(6)))
    /\ (op = "neg" /\ x_a = F(2)) => ret = Ok(Step(Fin(TRUE, Dy(2, 0))))

C3_Witness ==
    /\ op = "sub"
    /\ x_a = F(5)
    /\ x_b = F(2)
    /\ ret = Ok(Step(F(3)))

ExactlyOne(p, q, r) == (p /\ ~q /\ ~r) \/ (~p /\ q /\ ~r) \/ (~p /\ ~q /\ r)

\* The numeric order of two f32 that are not NaN.
NumericOrder(x, y) ==
    IF F32Lt(x, y) THEN "Less" ELSE IF F32Lt(y, x) THEN "Greater" ELSE "Equal"

\* C4: for Steps a and b that are not NaN exactly one of a < b, a == b,
\* a > b holds, each as the numeric order of the scalars has it; cmp(a, b) is
\* Less, Equal or Greater accordingly, and a == b exactly when it is Equal.
C4_OrderingTotal ==
    (~IsNaN(x_a) /\ ~IsNaN(x_b)) =>
        /\ ExactlyOne(lt(a, b), eq(a, b), gt(a, b))
        /\ op = "lt" => ret = Ok(NumericOrder(x_a, x_b) = "Less")
        /\ op = "eq" => ret = Ok(NumericOrder(x_a, x_b) = "Equal")
        /\ op = "gt" => ret = Ok(NumericOrder(x_a, x_b) = "Greater")
        /\ op = "cmp" => ret = Ok(NumericOrder(x_a, x_b))
        /\ op = "partial_cmp" => ret = Ok(Some(NumericOrder(x_a, x_b)))
        /\ eq(a, b) <=> (cmp(a, b) = Ok("Equal"))

C4_Witness ==
    /\ op = "cmp"
    /\ x_a = Fin(TRUE, Dy(1, -1))
    /\ x_b = Zero(TRUE)
    /\ ret = Ok("Less")

\* C5: no operation panics, except cmp: cmp(a, b) panics exactly when a or b
\* is NaN; every other call, partial_cmp, ==, the arithmetic operators, the
\* conversions and the integer coercions among them, returns a value for
\* every input.
C5_OnlyCmpOfNaNPanics ==
    op # "none" =>
        /\ ret = Panic <=> (op = "cmp" /\ (IsNaN(x_a) \/ IsNaN(x_b)))
        /\ ret # Panic => ret[1] = "Ok"

C5_Witness ==
    /\ op = "cmp"
    /\ x_a = F(3)
    /\ IsNaN(x_b)
    /\ ret = Panic

\* C6: s.scaled_perc() is s.scaled_perc_with_weight(DEFAULT_SCALE_WEIGHT):
\* the weighted conversion of the same raw step with the default weight.
C6_ScaledPercUsesDefaultWeight ==
    /\ op = "scaled_perc" => ret = Ok(scaled_perc_from_step(x_a, DEFAULT_SCALE_WEIGHT))
    /\ (op = "scaled_perc_with_weight" /\ w = DEFAULT_SCALE_WEIGHT) => ret = Ok(scaled_perc(a))

C6_Witness ==
    /\ op = "scaled_perc"
    /\ x_a = F(3)
    /\ ret = Ok(<<"scaled_perc_from_step", F(3), F(4)>>)

\* C7: the weight stored in s.to_scaled_perc() is DEFAULT_SCALE_WEIGHT, and
\* s.to_scaled_perc_with_weight(w) is the pair of
\* s.scaled_perc_with_weight(w) and w: the stored weight is the weight used.
C7_StoredWeightIsWeightUsed ==
    /\ op = "to_scaled_perc" =>
           /\ ret[2][3] = DEFAULT_SCALE_WEIGHT
           /\ ret = Ok(ScaledPerc(scaled_perc_from_step(x_a, DEFAULT_SCALE_WEIGHT),
                                  DEFAULT_SCALE_WEIGHT))
    /\ op = "to_scaled_perc_with_weight" =>
           /\ ret[2][3] = w
           /\ ret = Ok(ScaledPerc(scaled_perc_from_step(x_a, w), w))

C7_Witness ==
    /\ op = "to_scaled_perc_with_weight"
    /\ x_a = F(3)
    /\ w = F(2)
    /\ ret = Ok(<<"ScaledPerc", <<"scaled_perc_from_step", F(3), F(2)>>, F(2)>>)

\* C8 as stated: a / Step(0.0) is a Step whose scalar is an infinity for
\* every Step a (here: every a that is not NaN, the reading most favourable
\* to the statement), and a % b is a Step for every a and b.
C8_DivByZeroIsInfinite ==
    /\ (op = "div" /\ IsZero(x_b) /\ ~IsNaN(x_a)) => (ret[1] = "Ok" /\ IsInf(ret[2][2]))
    /\ op = "rem" => (ret[1] = "Ok" /\ ret[2] = Step(ret[2][2]) /\ IsF32(ret[2][2]))

\* C8, amended: division and remainder never raise an error: a / Step(0.0)
\* is a Step whose scalar is an infinity for every a that is neither zero nor
\* NaN, and NaN for a zero or NaN a; a / b and a % b are Steps, of a finite,
\* infinite or NaN scalar, for every a and b.
C8_DivByZeroIsInfiniteOrNaN ==
    /\ op \in {"div", "rem"} =>
           (ret[1] = "Ok" /\ ret[2] = Step(ret[2][2]) /\ IsF32(ret[2][2]))
    /\ (op = "div" /\ IsZero(x_b)) =>
           IF IsNaN(x_a) \/ IsZero(x_a) THEN IsNaN(ret[2][2])
           ELSE ret[2][2] = Inf(x_a.neg # x_b.neg)

C8_Witness ==
    /\ op = "div"
    /\ x_a = Fin(TRUE, Dy(3, 0))
    /\ x_b = Zero(FALSE)
    /\ ret = Ok(Step(Inf(TRUE)))

\* C9: the raw and the wrapped conversions agree: step() is the wrapped
\* scalar; hz(), mel() and perc() are hz_from_step, mel_from_step and
\* perc_from_step of it, and to_hz(), to_mel() and to_perc() wrap exactly
\* those; letter(), octave() and to_letter_octave() are the first component,
\* the second component and the wrapped pair of letter_octave(), which is
\* letter_octave_from_step of the scalar.
C9_RawAndWrappedAgree ==
    /\ op = "step" => ret = Ok(a[2])
    /\ op = "hz" => ret = Ok(hz_from_step(a[2]))
    /\ op = "to_hz" => ret = Ok(Hz(hz_from_step(a[2])))
    /\ op = "mel" => ret = Ok(mel_from_step(a[2]))
    /\ op = "to_mel" => ret = Ok(Mel(mel_from_step(a[2])))
    /\ op = "perc" => ret = Ok(perc_from_step(a[2]))
    /\ op = "to_perc" => ret = Ok(Perc(perc_from_step(a[2])))
    /\ op = "letter_octave" => ret = Ok(letter_octave_from_step(a[2]))
    /\ op = "letter" => ret = Ok(letter_octave_from_step(a[2])[1])
    /\ op = "octave" => ret = Ok(letter_octave_from_step(a[2])[2])
    /\ op = "to_letter_octave" =>
           ret = Ok(LetterOctave(letter_octave_from_step(a[2])[1],
                                 letter_octave_from_step(a[2])[2]))

C9_Witness ==
    /\ op = "octave"
    /\ x_a = F(3)
    /\ ret = Ok(<<"octave_from_step", F(3)>>)

=============================================================================
